---- MODULE Spec2Model ----
(***************************************************************************)
(* Model of the compact context formatter of MoltBrain                     *)
(* (src/src/formatters/CompactFormatter.ts): the record renderer           *)
(* (formatObservation, formatSummary), the token estimator and the budget  *)
(* packer formatWithBudget, which is translated statement by statement.    *)
(* Texts are TLA+ strings, so that lengths, concatenations and token       *)
(* estimates are those of the program.  Further components, each with its  *)
(* own variables and specification: the MCP request handlers               *)
(* (src/src/mcp/handlers.ts) and the project filter                        *)
(* (src/src/filters/ProjectFilter.ts).                                     *)
(***************************************************************************)
EXTENDS Integers, Sequences, FiniteSets, TLC

\* ------------------------------------------------------------------ bounds
\* Longest candidate observation sequence handed to the packer.
MaxObs == 2
\* Largest token budget a caller passes.
MaxBudget == 13
\* Number of negative token budgets a caller may pass (-1, -2, ...).
NegBudgets == 1

\* ------------------------------------------------------- JavaScript values
\* The value `undefined` (an absent optional field or argument).
Undefined == [tag |-> "undefined"]
\* A native array of strings.
Arr(items) == [tag |-> "array", items |-> items]
\* A string value standing where an array is expected (JSON-encoded field).
Str(text) == [tag |-> "string", text |-> text]

\* The value `null`.
Null == [tag |-> "null"]
\* A value of any other type (a plain object).
Obj == [tag |-> "object"]

\* JavaScript truthiness of such a value: undefined, null and '' are falsy,
\* every array (also the empty one), object and non-empty string is truthy.
Truthy(value) ==
  CASE value.tag = "undefined" -> FALSE
    [] value.tag = "null"      -> FALSE
    [] value.tag = "string"    -> value.text # ""
    [] OTHER                   -> TRUE

\* JSON.parse on the string-encoded fields that occur in the record pools:
\* the parsed array, a non-array value, or a SyntaxError.
JSONParse(text) ==
  CASE text = "[\"c\"]"      -> [ok |-> TRUE, isArray |-> TRUE, items |-> <<"c">>]
    [] text = "[\"p\",\"q\"]" -> [ok |-> TRUE, isArray |-> TRUE, items |-> <<"p", "q">>]
    [] text = "[]"            -> [ok |-> TRUE, isArray |-> TRUE, items |-> <<>>]
    [] text = "{\"a\":1}"     -> [ok |-> TRUE, isArray |-> FALSE, items |-> <<>>]
    [] text = "42"            -> [ok |-> TRUE, isArray |-> FALSE, items |-> <<>>]
    [] OTHER                  -> [ok |-> FALSE, isArray |-> FALSE, items |-> <<>>]

\* String.prototype.toUpperCase on the closed set of observation types.
ToUpperCase(type) ==
  CASE type = "discovery"      -> "DISCOVERY"
    [] type = "decision"       -> "DECISION"
    [] type = "implementation" -> "IMPLEMENTATION"
    [] type = "issue"          -> "ISSUE"
    [] type = "learning"       -> "LEARNING"
    [] type = "reference"      -> "REFERENCE"

\* Array.prototype.join.
RECURSIVE Join(_, _)
Join(parts, sep) ==
  IF Len(parts) = 0 THEN ""
  ELSE IF Len(parts) = 1 THEN parts[1]
  ELSE parts[1] \o sep \o Join(Tail(parts), sep)

\* Variant: the slice keeps every item.
SliceAll(items, n) == items

\* Array.prototype.slice(0, n).
Slice(items, n) == SubSeq(items, 1, IF Len(items) < n THEN Len(items) ELSE n)

\* Array.prototype.push of an optional part.
PushIf(parts, cond, part) == IF cond THEN Append(parts, part) ELSE parts

\* ----------------------------------------------------------- record pools
DefaultOptions ==
  [maxNarrativeLength |-> 200, includeFacts |-> TRUE, includeConcepts |-> TRUE,
   includeFiles |-> FALSE, separator |-> " | "]

\* Options as the constructor leaves them: the defaults, or the defaults
\* overridden by the caller's options.
OptionsPool ==
  { DefaultOptions,
    [maxNarrativeLength |-> 8, includeFacts |-> FALSE, includeConcepts |-> TRUE,
     includeFiles |-> TRUE, separator |-> "|"] }

ObsPool ==
  { [type |-> "issue", title |-> "a", narrative |-> "",
     facts |-> Undefined, concepts |-> Undefined, files_modified |-> Undefined],
    [type |-> "issue", title |-> "bc", narrative |-> "0123456789",
     facts |-> Arr(<<>>), concepts |-> Str("oops"), files_modified |-> Arr(<<"f.ts">>)],
    [type |-> "decision", title |-> "d", narrative |-> "",
     facts |-> Arr(<<"p", "q", "r", "s">>), concepts |-> Str("[\"c\"]"),
     files_modified |-> Str("{\"a\":1}")] }

\* The last one has none of the three slots the compact renderer shows.
SummaryPool ==
  { [completed |-> "x", learned |-> "", next_steps |-> ""],
    [completed |-> "", learned |-> "ab", next_steps |-> "c"],
    [completed |-> "", learned |-> "", next_steps |-> ""] }

\* A text of n characters, none of them a separator.
RECURSIVE Repeat(_, _)
Repeat(text, n) == IF n = 0 THEN "" ELSE text \o Repeat(text, n - 1)

LongText(n) == SubSeq(Repeat("0123456789", (n + 9) \div 10), 1, n)

\* Blank observation fields, overridden per record below.
BlankObs ==
  [type |-> "discovery", title |-> "t", narrative |-> "",
   facts |-> Undefined, concepts |-> Undefined, files_modified |-> Undefined]

\* The records handed to single formatObservation calls: narratives around
\* the truncation limit, fact lists of every length around 3, array fields
\* as native lists, JSON strings and malformed values.
RenderObsPool ==
  ObsPool \cup
  { [BlankObs EXCEPT !.narrative = LongText(200)],
    [BlankObs EXCEPT !.narrative = LongText(201)],
    [BlankObs EXCEPT !.narrative = "12345678", !.facts = Arr(<<"p">>),
                     !.concepts = Arr(<<>>), !.files_modified = Arr(<<>>)],
    [BlankObs EXCEPT !.narrative = "123456789", !.facts = Arr(<<"p", "q", "r">>),
                     !.concepts = Arr(<<"c", "d">>),
                     !.files_modified = Arr(<<"f.ts", "g.ts", "h.ts", "i.ts">>)],
    [BlankObs EXCEPT !.facts = Arr(<<"p", "q", "r", "s", "u">>),
                     !.concepts = Str("[]"), !.files_modified = Str("[\"p\",\"q\"]")],
    [BlankObs EXCEPT !.facts = Str("[\"p\",\"q\"]"), !.concepts = Str("42"),
                     !.files_modified = Str("oops")],
    [BlankObs EXCEPT !.facts = Str("oops"), !.concepts = Obj, !.files_modified = Null],
    [BlankObs EXCEPT !.facts = Obj, !.concepts = Null, !.files_modified = Obj],
    [BlankObs EXCEPT !.facts = Str("{\"a\":1}"), !.concepts = Str(""),
                     !.files_modified = Str("")] }

\* The summaries handed to single formatSummary calls: slots around their
\* truncation limits.
RenderSummaryPool ==
  SummaryPool \cup
  { [completed |-> LongText(160), learned |-> "", next_steps |-> ""],
    [completed |-> LongText(150), learned |-> LongText(151), next_steps |-> LongText(101)],
    [completed |-> LongText(151), learned |-> LongText(150), next_steps |-> LongText(100)] }

RenderOptionsPool ==
  OptionsPool \cup
  { [maxNarrativeLength |-> 200, includeFacts |-> TRUE, includeConcepts |-> FALSE,
     includeFiles |-> TRUE, separator |-> " | "] }

\* All sequences over S of length at most n.
RECURSIVE SeqsUpTo(_, _)
SeqsUpTo(S, n) ==
  IF n = 0 THEN {<<>>}
  ELSE LET shorter == SeqsUpTo(S, n - 1)
       IN  shorter \cup {Append(s, x) : s \in {t \in shorter : Len(t) = n - 1}, x \in S}

Budgets == (0 - NegBudgets)..MaxBudget

\* ------------------------------------------------------------------ state
VARIABLES
  options,        \* this.options of the CompactFormatter instance
  observations,   \* the caller's candidate observation records
  summary,        \* the caller's candidate summary, or Undefined
  maxTokens,      \* argument of the formatWithBudget call in progress
  pc,             \* position of the formatWithBudget call
  result,         \* local `result` of formatWithBudget
  currentTokens,  \* local `currentTokens` of formatWithBudget
  obsIdx,         \* position of the for-of iterator over observations
  prev,           \* history: an earlier completed formatWithBudget call
  rendered,       \* last formatObservation / formatSummary call and its value
  estimated       \* last estimateTokens call: its text and its value

\* MCPHandlers (src/src/mcp/handlers.ts)
VARIABLES
  initialized,    \* this.initialized
  requests,       \* history: the requests handleRequest received; the id of a
                  \* request is its position
  responses,      \* per request, the response its promise resolved to, or Pending
  started         \* history: ids of the requests whose memory operation was invoked

\* ProjectFilter (src/src/filters/ProjectFilter.ts)
VARIABLES
  selectedProjects,  \* this.selectedProjects
  excludedProjects,  \* this.excludedProjects
  lastCall,          \* the last ProjectFilter call: method, argument, return value
  toggleTrail        \* history: the two sets as they were before each of the
                     \* last (at most two) calls, when these were toggle calls
                     \* for one project with no other modifying call between

mcpVars == <<initialized, requests, responses, started>>

pfVars == <<selectedProjects, excludedProjects, lastCall, toggleTrail>>

\* mergeAndDeduplicateByProject (src/unnamed/part_000)
VARIABLES
  liveData,       \* the caller's first list
  paginatedData,  \* the caller's second list
  merged          \* the last call: the lists as passed and the list returned

mergeVars == <<liveData, paginatedData, merged>>

\* DateFilter (src/src/filters/ProjectFilter.ts)
VARIABLES
  dateRange,      \* this.range, NoRange for null
  datePreset,     \* this.preset
  dateCall        \* the last DateFilter call and its value

dateVars == <<dateRange, datePreset, dateCall>>

\* FavoritesManager (src/src/favorites/FavoritesManager.ts)
VARIABLES
  favorites,      \* the observation ids the store holds
  listeners,      \* this.listeners, in insertion order
  unsubscribed,   \* history: handlers whose unsubscribe function was called
                  \* after they were last passed to on()
  favCall         \* the last operation: its result and the event's deliveries

favVars == <<favorites, listeners, unsubscribed, favCall>>

\* OpenClawHooks (src/integrations/clawd/README.md)
VARIABLES
  currentSession, \* this.currentSession, the session's id, NoSession for null
  sessionMemories,\* this.sessionMemories: session id -> the entries kept for it
  loading,        \* sessions whose onSessionStart awaits loadSessionMemories
  summarising,    \* sessions whose onSessionEnd awaits generateSessionSummary
  saving,         \* observations the running onResponse calls have yet to save
  keptOpen,       \* history: the session that was current when another
                  \* started session was ended, NoSession once a session is
                  \* started or ended again
  hookCall        \* the last hook call or saveMemory and what it did

hookVars == <<currentSession, sessionMemories, loading, summarising, saving,
              keptOpen, hookCall>>

\* The components beside the formatter, the MCP handler and ProjectFilter.
laterVars == <<mergeVars, dateVars, favVars, hookVars>>

\* Everything outside the formatter.
beyondFormatter == <<mcpVars, pfVars, laterVars>>

fmtVars == <<options, observations, summary, maxTokens, pc, result, currentTokens,
             obsIdx, prev, rendered, estimated>>

vars == <<fmtVars, mcpVars, pfVars, laterVars>>

\* ------------------------------------------------------------- rendering
\* String.prototype.slice(0, end): a negative end counts from the end of
\* the text, and the end is clamped to the text.
StrSlice(text, end) ==
  LET stop == IF end < 0 THEN (IF Len(text) + end < 0 THEN 0 ELSE Len(text) + end)
              ELSE (IF end > Len(text) THEN Len(text) ELSE end)
  IN  SubSeq(text, 1, stop)

\* Variant: the cut keeps maxLength characters and then appends the dots.
truncateNoRoom(text, maxLength) ==
  IF Len(text) <= maxLength THEN text
  ELSE StrSlice(text, maxLength) \o "..."

\* CompactFormatter.truncate
truncate(text, maxLength) ==
  IF Len(text) <= maxLength THEN text
  ELSE StrSlice(text, maxLength - 3) \o "..."

\* CompactFormatter.parseArray
\* Variant: a string that is not a JSON array counts as a list of one item.
parseArrayLenient(value) ==
  IF value.tag = "array" THEN value.items
  ELSE IF value.tag = "string"
       THEN LET parsed == JSONParse(value.text)
            IN  IF parsed.ok /\ parsed.isArray THEN parsed.items ELSE <<value.text>>
       ELSE <<>>

\* CompactFormatter.parseArray (VerboseFormatter.parseArray is the same code)
parseArray(value) ==
  IF value.tag = "array" THEN value.items
  ELSE IF value.tag = "string"
       THEN LET parsed == JSONParse(value.text)
            IN  IF parsed.ok /\ parsed.isArray THEN parsed.items ELSE <<>>
       ELSE <<>>

\* CompactFormatter.formatObservation
formatObservation(obs) ==
  LET p1 == <<"[" \o ToUpperCase(obs.type) \o "] " \o obs.title>>
      p2 == PushIf(p1, obs.narrative # "",
                   truncate(obs.narrative, options.maxNarrativeLength))
      facts == parseArray(obs.facts)
      p3 == PushIf(p2, options.includeFacts /\ Truthy(obs.facts) /\ Len(facts) > 0,
                   "Facts: " \o Join(Slice(facts, 3), "; "))
      concepts == parseArray(obs.concepts)
      p4 == PushIf(p3, options.includeConcepts /\ Truthy(obs.concepts) /\ Len(concepts) > 0,
                   "[" \o Join(concepts, ", ") \o "]")
      files == parseArray(obs.files_modified)
      p5 == PushIf(p4, options.includeFiles /\ Len(files) > 0,
                   "Files: " \o Join(Slice(files, 3), ", "))
  IN  Join(p5, options.separator)

\* CompactFormatter.formatSummary
formatSummary(s) ==
  LET p1 == PushIf(<<>>, s.completed # "", "Done: " \o truncate(s.completed, 150))
      p2 == PushIf(p1, s.learned # "", "Learned: " \o truncate(s.learned, 150))
      p3 == PushIf(p2, s.next_steps # "", "Next: " \o truncate(s.next_steps, 100))
  IN  Join(p3, options.separator)

\* Variant: Math.floor instead of Math.ceil.
estimateTokensFloor(text) == Len(text) \div 4

\* CompactFormatter.estimateTokens: Math.ceil(text.length / 4)
estimateTokens(text) == (Len(text) + 3) \div 4

\* ------------------------------------------------------- formatWithBudget
\* The literal header the packer emits in front of the observations.
ObservationsHeader == "## Observations\n"

\* Variant: the header is charged what the estimator gives for it.
HeaderTokensByEstimator == estimateTokens(ObservationsHeader)

\* Tokens charged for the observations header (`currentTokens += 5`).
HeaderTokens == 5

\* Variant: the summary block ends with its own line, no empty line after it.
SummaryTextTight(s) == "## Summary\n" \o formatSummary(s) \o "\n"

\* `'## Summary\n' + this.formatSummary(summary) + '\n\n'`
SummaryText(s) == "## Summary\n" \o formatSummary(s) \o "\n\n"

\* `this.formatObservation(obs) + '\n'`
ObsText(obs) == formatObservation(obs) \o "\n"

\* Variant: a summary that reaches the budget exactly is included.
SummaryFitsAtLimit(summaryTokens, budget) == summaryTokens <= budget

\* `summaryTokens < maxTokens`
SummaryFits(summaryTokens, budget) == summaryTokens < budget

\* Variant: an observation that reaches the budget exactly does not fit.
ExceedsBudgetAtLimit(current, obsTokens, budget) == current + obsTokens >= budget

\* Variant: the check forgets the running total.
ExceedsBudgetItemOnly(current, obsTokens, budget) == obsTokens > budget

\* `currentTokens + obsTokens > maxTokens`
ExceedsBudget(current, obsTokens, budget) == current + obsTokens > budget

\* No call is in progress: the formatter is synchronous, so a call starts
\* only before the first call or after the previous one has returned.
Returned == pc \in {"idle", "done"}

NoCall == [tag |-> "none"]
NoRender == [tag |-> "none", arg |-> 0, text |-> ""]
NoEstimate == [tag |-> "none", text |-> "", tokens |-> 0]

\* MCPHandlers after construction: `private initialized = false`, nothing
\* received yet.
McpInit ==
  /\ initialized = FALSE
  /\ requests = <<>>
  /\ responses = <<>>
  /\ started = {}

\* No ProjectFilter call yet. A call is recorded with its project argument,
\* its list argument, its boolean return value and the list it returned.
NoProjectCall ==
  [method |-> "none", project |-> "", items |-> <<>>, value |-> FALSE, kept |-> <<>>]

\* ProjectFilter after construction: both sets empty.
PfInit ==
  /\ selectedProjects = {}
  /\ excludedProjects = {}
  /\ lastCall = NoProjectCall
  /\ toggleTrail = <<>>

NoMerge == [tag |-> "none", live |-> <<>>, paginated |-> <<>>, result |-> <<>>]

\* No list has been merged.
MergeInit ==
  /\ liveData = <<>>
  /\ paginatedData = <<>>
  /\ merged = NoMerge

\* `range: DateRange | null = null`
NoRange == [start |-> 0, end |-> -1, set |-> FALSE]

NoDateCall == [method |-> "none", date |-> 0, items |-> <<>>, value |-> FALSE, kept |-> <<>>]

\* DateFilter after construction: no range, preset 'all'.
DateInit ==
  /\ dateRange = NoRange
  /\ datePreset = "all"
  /\ dateCall = NoDateCall

NoFavCall ==
  [op |-> "none", id |-> 0, returned |-> FALSE, value |-> FALSE, event |-> "none",
   registered |-> <<>>, received |-> {}, threw |-> {}]

\* FavoritesManager after construction: no listener, an empty store.
FavInit ==
  /\ favorites = {}
  /\ listeners = <<>>
  /\ unsubscribed = {}
  /\ favCall = NoFavCall

NoSession == "null"

NoHookCall == [method |-> "none", session |-> NoSession, observations |-> 0,
               searched |-> FALSE, savedTo |-> NoSession]

HookInit ==
  /\ currentSession = NoSession
  /\ sessionMemories = [id \in {} |-> <<>>]
  /\ loading = {}
  /\ summarising = {}
  /\ saving = 0
  /\ keptOpen = NoSession
  /\ hookCall = NoHookCall

LaterInit == MergeInit /\ DateInit /\ FavInit /\ HookInit

\* The completed call the caller may remember when it calls again.
Completed ==
  [tag |-> "call", maxTokens |-> maxTokens, result |-> result,
   currentTokens |-> currentTokens, included |-> obsIdx - 1]

Init ==
  /\ options \in OptionsPool
  /\ observations \in SeqsUpTo(ObsPool, MaxObs)
  /\ summary \in SummaryPool \cup {Undefined}
  /\ maxTokens = 0
  /\ pc = "idle"
  /\ result = ""
  /\ currentTokens = 0
  /\ obsIdx = 1
  /\ prev = NoCall
  /\ rendered = NoRender
  /\ estimated = NoEstimate
  /\ McpInit
  /\ PfInit
  /\ LaterInit

\* Variant: the entry validates the budget and throws on a negative one.
FormatWithBudgetCallValidated ==
  /\ UNCHANGED <<estimated, beyondFormatter>>
  /\ Returned
  /\ \E budget \in Budgets :
       /\ maxTokens' = budget
       /\ pc' = IF budget < 0 THEN "thrown" ELSE "summary"
  /\ result' = ""
  /\ currentTokens' = 0
  /\ obsIdx' = 1
  /\ prev' \in {prev} \cup (IF pc = "done" THEN {Completed} ELSE {})
  /\ UNCHANGED <<options, observations, summary, rendered>>

\* Variant: the output text is kept from the previous call instead of
\* starting empty.
FormatWithBudgetCallStaleResult ==
  /\ UNCHANGED <<estimated, beyondFormatter>>
  /\ Returned
  /\ \E budget \in Budgets : maxTokens' = budget
  /\ currentTokens' = 0
  /\ obsIdx' = 1
  /\ pc' = "summary"
  /\ prev' \in {prev} \cup (IF pc = "done" THEN {Completed} ELSE {})
  /\ UNCHANGED <<options, observations, summary, rendered, result>>

\* Variant: the running total is kept from the previous call instead of
\* starting at 0.
FormatWithBudgetCallStaleTotal ==
  /\ UNCHANGED <<estimated, beyondFormatter>>
  /\ Returned
  /\ \E budget \in Budgets : maxTokens' = budget
  /\ result' = ""
  /\ obsIdx' = 1
  /\ pc' = "summary"
  /\ prev' \in {prev} \cup (IF pc = "done" THEN {Completed} ELSE {})
  /\ UNCHANGED <<options, observations, summary, rendered, currentTokens>>

\* Entry of formatWithBudget(observations, summary, maxTokens):
\* `let result = ''; let currentTokens = 0;`
FormatWithBudgetCall ==
  /\ UNCHANGED <<estimated, beyondFormatter>>
  /\ Returned
  /\ \E budget \in Budgets : maxTokens' = budget
  /\ result' = ""
  /\ currentTokens' = 0
  /\ obsIdx' = 1
  /\ pc' = "summary"
  /\ prev' \in {prev} \cup (IF pc = "done" THEN {Completed} ELSE {})
  /\ UNCHANGED <<options, observations, summary, rendered>>

\* `if (summary) { ... if (summaryTokens < maxTokens) { ... } }`
SummaryStep ==
  /\ UNCHANGED <<estimated, beyondFormatter>>
  /\ pc = "summary"
  /\ IF summary # Undefined
     THEN LET summaryText == SummaryText(summary)
              summaryTokens == estimateTokens(summaryText)
          IN  IF SummaryFits(summaryTokens, maxTokens)
              THEN /\ result' = result \o summaryText
                   /\ currentTokens' = currentTokens + summaryTokens
              ELSE UNCHANGED <<result, currentTokens>>
     ELSE UNCHANGED <<result, currentTokens>>
  /\ pc' = "observations"
  /\ UNCHANGED <<options, observations, summary, maxTokens, obsIdx, prev, rendered>>

\* Variant: the header is emitted only when the first observation fits
\* behind it.
HeaderStepLazy ==
  /\ UNCHANGED <<estimated, beyondFormatter>>
  /\ pc = "observations"
  /\ IF /\ Len(observations) > 0
        /\ ~ExceedsBudget(currentTokens + HeaderTokens,
                          estimateTokens(ObsText(observations[1])), maxTokens)
     THEN /\ result' = result \o ObservationsHeader
          /\ currentTokens' = currentTokens + HeaderTokens
          /\ pc' = "loop"
     ELSE /\ pc' = "done"
          /\ UNCHANGED <<result, currentTokens>>
  /\ UNCHANGED <<options, observations, summary, maxTokens, obsIdx, prev, rendered>>

\* Variant: the header is budget-checked like an observation and left out
\* (with the observations) when it does not fit.
HeaderStepChecked ==
  /\ UNCHANGED <<estimated, beyondFormatter>>
  /\ pc = "observations"
  /\ IF Len(observations) > 0 /\ currentTokens + HeaderTokens <= maxTokens
     THEN /\ result' = result \o ObservationsHeader
          /\ currentTokens' = currentTokens + HeaderTokens
          /\ pc' = "loop"
     ELSE /\ pc' = "done"
          /\ UNCHANGED <<result, currentTokens>>
  /\ UNCHANGED <<options, observations, summary, maxTokens, obsIdx, prev, rendered>>

\* Variant: the header is emitted but its cost is not charged.
HeaderStepUncharged ==
  /\ UNCHANGED <<estimated, beyondFormatter>>
  /\ pc = "observations"
  /\ IF Len(observations) > 0
     THEN /\ result' = result \o ObservationsHeader
          /\ pc' = "loop"
          /\ UNCHANGED currentTokens
     ELSE /\ pc' = "done"
          /\ UNCHANGED <<result, currentTokens>>
  /\ UNCHANGED <<options, observations, summary, maxTokens, obsIdx, prev, rendered>>

\* `if (observations.length > 0) { result += '## Observations\n';
\*  currentTokens += 5; for (...) }`, else `return result`
HeaderStep ==
  /\ UNCHANGED <<estimated, beyondFormatter>>
  /\ pc = "observations"
  /\ IF Len(observations) > 0
     THEN /\ result' = result \o ObservationsHeader
          /\ currentTokens' = currentTokens + HeaderTokens
          /\ pc' = "loop"
     ELSE /\ pc' = "done"
          /\ UNCHANGED <<result, currentTokens>>
  /\ UNCHANGED <<options, observations, summary, maxTokens, obsIdx, prev, rendered>>

\* Variant: an observation that does not fit is skipped (`continue`) and the
\* loop goes on with the next one.
LoopStepContinue ==
  /\ UNCHANGED <<estimated, beyondFormatter>>
  /\ pc = "loop"
  /\ IF obsIdx > Len(observations)
     THEN /\ pc' = "done"
          /\ UNCHANGED <<result, currentTokens, obsIdx>>
     ELSE LET obsText == ObsText(observations[obsIdx])
              obsTokens == estimateTokens(obsText)
          IN  IF ExceedsBudget(currentTokens, obsTokens, maxTokens)
              THEN /\ obsIdx' = obsIdx + 1
                   /\ pc' = "loop"
                   /\ UNCHANGED <<result, currentTokens>>
              ELSE /\ result' = result \o obsText
                   /\ currentTokens' = currentTokens + obsTokens
                   /\ obsIdx' = obsIdx + 1
                   /\ pc' = "loop"
  /\ UNCHANGED <<options, observations, summary, maxTokens, prev, rendered>>

\* One iteration of `for (const obs of observations)`: `break` or the end of
\* the sequence lead to `return result`.
LoopStep ==
  /\ UNCHANGED <<estimated, beyondFormatter>>
  /\ pc = "loop"
  /\ IF obsIdx > Len(observations)
     THEN /\ pc' = "done"
          /\ UNCHANGED <<result, currentTokens, obsIdx>>
     ELSE LET obsText == ObsText(observations[obsIdx])
              obsTokens == estimateTokens(obsText)
          IN  IF ExceedsBudget(currentTokens, obsTokens, maxTokens)
              THEN /\ pc' = "done"
                   /\ UNCHANGED <<result, currentTokens, obsIdx>>
              ELSE /\ result' = result \o obsText
                   /\ currentTokens' = currentTokens + obsTokens
                   /\ obsIdx' = obsIdx + 1
                   /\ pc' = "loop"
  /\ UNCHANGED <<options, observations, summary, maxTokens, prev, rendered>>

\* A call of formatObservation on one of the caller's records.
FormatObservationCall ==
  /\ UNCHANGED <<estimated, beyondFormatter>>
  /\ Returned
  /\ \E k \in 1..Len(observations) :
       rendered' = [tag |-> "formatObservation", arg |-> k,
                    text |-> formatObservation(observations[k])]
  /\ UNCHANGED <<options, observations, summary, maxTokens, pc, result,
                 currentTokens, obsIdx, prev>>

\* A call of formatSummary on the caller's summary.
FormatSummaryCall ==
  /\ UNCHANGED <<estimated, beyondFormatter>>
  /\ Returned
  /\ summary # Undefined
  /\ rendered' = [tag |-> "formatSummary", arg |-> 0, text |-> formatSummary(summary)]
  /\ UNCHANGED <<options, observations, summary, maxTokens, pc, result,
                 currentTokens, obsIdx, prev>>

\* The texts a caller estimates: short texts of every length around the
\* 4-character ratio, a long one, and the text it rendered last.
EstimateTexts ==
  {"", "a", "ab", "abc", "abcd", "abcde", LongText(8), LongText(9), LongText(160)}
    \cup {rendered.text, rendered.text \o "\n"}

\* A call of estimateTokens.
EstimateTokensCall ==
  /\ Returned
  /\ \E text \in EstimateTexts :
       estimated' = [tag |-> "estimateTokens", text |-> text,
                     tokens |-> estimateTokens(text)]
  /\ UNCHANGED <<options, observations, summary, maxTokens, pc, result,
                 currentTokens, obsIdx, prev, rendered, beyondFormatter>>

\* The budget packer alone: formatWithBudget calls, one after the other.
Next ==
  \/ FormatWithBudgetCall
  \/ SummaryStep
  \/ HeaderStep
  \/ LoopStep

Spec == Init /\ [][Next]_vars

\* Any sequence of formatObservation / formatSummary / formatWithBudget
\* calls on the same instance.
NextCalls ==
  \/ FormatWithBudgetCall
  \/ SummaryStep
  \/ HeaderStep
  \/ LoopStep
  \/ FormatObservationCall
  \/ FormatSummaryCall

\* A caller that holds a summary and at least one observation, so that each
\* of the three calls can be made.
InitCalls ==
  /\ Init
  /\ summary # Undefined
  /\ Len(observations) >= 1

SpecCalls == InitCalls /\ [][NextCalls]_vars

\* The record renderer and the token estimator alone: a caller with one
\* observation and one summary renders them and estimates texts.
InitRender ==
  /\ options \in RenderOptionsPool
  /\ observations \in {<<obs>> : obs \in RenderObsPool}
  /\ summary \in RenderSummaryPool
  /\ maxTokens = 0
  /\ pc = "idle"
  /\ result = ""
  /\ currentTokens = 0
  /\ obsIdx = 1
  /\ prev = NoCall
  /\ rendered = NoRender
  /\ estimated = NoEstimate
  /\ McpInit
  /\ PfInit
  /\ LaterInit

NextRender ==
  \/ FormatObservationCall
  \/ FormatSummaryCall
  \/ EstimateTokensCall

SpecRender == InitRender /\ [][NextRender]_vars

\* ------------------------------------------------- vocabulary of the claims
\* text occurs in whole at the start of s.
HasPrefix(s, text) == Len(text) <= Len(s) /\ SubSeq(s, 1, Len(text)) = text

\* text occurs somewhere in s.
Contains(s, text) ==
  \E at \in 1..(Len(s) - Len(text) + 1) : SubSeq(s, at, at + Len(text) - 1) = text

\* Number of observations the call has appended (the iterator has passed).
Included == obsIdx - 1

\* Estimated tokens of the j-th candidate observation's line.
ObsTokensAt(j) == estimateTokens(ObsText(observations[j]))

\* Tokens of the first j candidate observations' lines.
RECURSIVE PrefixTokens(_)
PrefixTokens(j) == IF j = 0 THEN 0 ELSE PrefixTokens(j - 1) + ObsTokensAt(j)

\* The lines of the first j candidate observations, in input order.
RECURSIVE PrefixText(_)
PrefixText(j) == IF j = 0 THEN "" ELSE PrefixText(j - 1) \o ObsText(observations[j])

\* The summary block is part of the text.
SummaryIn(text) == summary # Undefined /\ HasPrefix(text, SummaryText(summary))

\* What the text may start with: nothing, or the summary block.
Heads == {""} \cup (IF summary # Undefined THEN {SummaryText(summary)} ELSE {})

\* ------------------------------------------------------------------ claims

\* C1: at return of formatWithBudget the running token total (summary block,
\* header cost, included observations) never exceeds maxTokens.
C1_TotalWithinBudget == pc = "done" => currentTokens <= maxTokens

\* C2: for every candidate set and every maxTokens > 0 the running token
\* total at return is at most maxTokens plus the fixed header cost.
C2_TotalWithinBudgetPlusHeader ==
  (pc = "done" /\ maxTokens > 0) => currentTokens <= maxTokens + HeaderTokens

\* C2 witness: a call with a positive budget returned with a total above the
\* budget, the excess being the header charged after an included summary.
C2_Witness ==
  /\ pc = "done"
  /\ maxTokens > 0
  /\ SummaryIn(result)
  /\ Len(observations) > 0
  /\ currentTokens > maxTokens

\* C3: the observations in the returned text are exactly the first k
\* observations of the input, in input order, for some 0 <= k <= n.
C3_IncludedIsPrefix ==
  pc = "done" =>
    \E k \in 0..Len(observations) :
      \E head \in Heads :
        result = head \o (IF Len(observations) > 0 THEN ObservationsHeader ELSE "")
                      \o PrefixText(k)

\* C3 witness: a call returned with a proper, non-empty prefix of the
\* candidates: the first was included and a later one was not.
C3_Witness ==
  /\ pc = "done"
  /\ Included >= 1
  /\ Included < Len(observations)
  /\ Contains(result, PrefixText(Included))

\* C4 (as claimed): with the summary and the observations held fixed, a call
\* with a budget at least as large as an earlier call's includes at least as
\* many observations, also when a summary is present.
C4_MonotoneInBudget ==
  (pc = "done" /\ prev # NoCall /\ prev.maxTokens <= maxTokens)
    => prev.included <= Included

\* C4 (amended): the same, provided the summary is included under both
\* budgets or under neither (in particular when no summary is present).
C4_MonotoneSameSummary ==
  (/\ pc = "done"
   /\ prev # NoCall
   /\ prev.maxTokens <= maxTokens
   /\ SummaryIn(prev.result) <=> SummaryIn(result))
    => prev.included <= Included

\* C4 witness: two returned calls with a summary present in both outputs,
\* the later budget larger and strictly more observations included.
C4_Witness ==
  /\ pc = "done"
  /\ prev # NoCall
  /\ prev.maxTokens < maxTokens
  /\ SummaryIn(prev.result)
  /\ SummaryIn(result)
  /\ prev.included < Included

\* Tokens on the running total when the loop starts: the summary block if it
\* is in the text, plus the header.
LoopBase ==
  (IF SummaryIn(result) THEN estimateTokens(SummaryText(summary)) ELSE 0) + HeaderTokens

\* The first j candidates all fit, one after the other, into maxTokens.
AllFit(j) == \A i \in 1..j : LoopBase + PrefixTokens(i) <= maxTokens

\* C5: the loop stops at the first observation with
\* runningTotal + itemTokens > maxTokens; that one and every later one are
\* excluded, even a later one that would fit; an observation that brings the
\* total to exactly maxTokens is included.
C5_StopAtFirstOverflow ==
  (pc = "done" /\ Len(observations) > 0) =>
    /\ AllFit(Included)
    /\ \A j \in 1..Len(observations) : AllFit(j) => j <= Included
    /\ currentTokens = LoopBase + PrefixTokens(Included)
    /\ \E head \in Heads :
         result = head \o ObservationsHeader \o PrefixText(Included)

\* C5 witness: the loop stopped at an observation that did not fit although
\* a later, shorter one would have fitted into the remaining budget.
C5_Witness ==
  /\ pc = "done"
  /\ Included + 2 <= Len(observations)
  /\ currentTokens + ObsTokensAt(Included + 1) > maxTokens
  /\ \E j \in (Included + 2)..Len(observations) :
       currentTokens + ObsTokensAt(j) <= maxTokens

\* C6: a present summary is included iff the estimated tokens of its whole
\* block ('## Summary\n' + rendered summary + blank line) are strictly less
\* than maxTokens; when included the whole block is appended and its tokens
\* are added to the running total, otherwise nothing of the summary is in
\* the output and the running total is 0 before the observations step.
C6_SummaryIffStrictlyLess ==
  LET block == SummaryText(summary)
      fits  == summary # Undefined /\ (Len(block) + 3) \div 4 < maxTokens
  IN  /\ pc = "observations" =>
           IF fits THEN result = block /\ currentTokens = (Len(block) + 3) \div 4
                   ELSE result = "" /\ currentTokens = 0
      /\ pc \in {"loop", "done"} =>
           IF fits THEN HasPrefix(result, block)
                   ELSE ~Contains(result, "## Summary")

\* C6 witness: the summary step has run on a summary whose block costs
\* exactly maxTokens, and left it out.
C6_Witness ==
  /\ pc = "observations"
  /\ summary # Undefined
  /\ estimateTokens(SummaryText(summary)) = maxTokens
  /\ result = ""

\* C7 (as claimed): the '## Observations' heading is in the output only if
\* at least one observation was included, and the '## Summary' heading only
\* if the summary was included.
C7_NoEmptyHeading ==
  pc = "done" =>
    /\ Contains(result, "## Observations") => Included >= 1
    /\ Contains(result, "## Summary") => SummaryIn(result)

\* C7 (amended): the '## Summary' heading is in the output exactly when the
\* summary was included, and the '## Observations' heading exactly when the
\* observation sequence is non-empty, also when no observation was included.
C7_HeadingIffOffered ==
  pc = "done" =>
    /\ Contains(result, "## Observations") <=> Len(observations) > 0
    /\ Contains(result, "## Summary") <=>
         (summary # Undefined /\ estimateTokens(SummaryText(summary)) < maxTokens)

\* C7 witness: a call returned the observations heading with every offered
\* observation excluded, under a budget the heading itself fits in.
C7_Witness ==
  /\ pc = "done"
  /\ Len(observations) > 0
  /\ Included = 0
  /\ maxTokens >= HeaderTokens
  /\ Contains(result, "## Observations")

\* C8: for every maxTokens <= 0 the call returns without an error, the
\* output has no summary, and for a non-empty observation sequence it is
\* exactly the bare observations heading with no rendered observation.
C8_NonPositiveBudget ==
  maxTokens <= 0 =>
    /\ pc # "thrown"
    /\ pc = "done" =>
         /\ ~Contains(result, "## Summary")
         /\ result = (IF Len(observations) > 0 THEN "## Observations\n" ELSE "")
         /\ Included = 0

\* C8 witness: a call with a negative budget, a summary and several candidate
\* observations returned the bare heading.
C8_Witness ==
  /\ pc = "done"
  /\ maxTokens < 0
  /\ summary # Undefined
  /\ Len(observations) >= 2
  /\ result = "## Observations\n"

\* C9 (as claimed): a negative budget is rejected at the call boundary: the
\* call fails before anything is rendered or packed and produces no output.
C9_NegativeBudgetRejected ==
  (maxTokens < 0 /\ pc # "idle") => (pc = "thrown" /\ result = "")

\* C9 (amended): a negative budget is not rejected: the call raises no error,
\* runs the packing steps and returns an output without summary and without
\* any rendered observation.
C9_NegativeBudgetAccepted ==
  maxTokens < 0 =>
    /\ pc \in {"summary", "observations", "loop", "done"}
    /\ pc = "done" => (currentTokens \in {0, HeaderTokens} /\ result \in {"", ObservationsHeader})

\* C9 witness: a call with a negative budget has entered the observation
\* loop with the heading already emitted.
C9_Witness ==
  /\ maxTokens < 0
  /\ pc = "loop"
  /\ result = ObservationsHeader

\* C10: no state is held across calls: no call of formatObservation,
\* formatSummary or formatWithBudget modifies the options or the input
\* records, and a call repeated with the arguments of an earlier call,
\* whatever calls lie in between, returns the identical result.
C10_NoStateAcrossCalls ==
  [][ /\ options' = options
      /\ observations' = observations
      /\ summary' = summary
      /\ (pc # "done" /\ pc' = "done" /\ prev # NoCall /\ prev.maxTokens = maxTokens)
           => (result' = prev.result /\ currentTokens' = prev.currentTokens)
      /\ (rendered'.tag = rendered.tag /\ rendered'.arg = rendered.arg)
           => rendered'.text = rendered.text
    ]_vars

\* C10 witness: a formatWithBudget call returned the same non-empty text as
\* an earlier call with the same budget, with render calls made before it.
C10_Witness ==
  /\ pc = "done"
  /\ prev # NoCall
  /\ prev.maxTokens = maxTokens
  /\ prev.result = result
  /\ Included >= 1
  /\ rendered.tag = "formatSummary"

\* ------------------------------------------ claims on estimator and renderer

\* C11: estimateTokens(text) equals ceil(length(text) / 4) for every text;
\* it is 0 for the empty string and never negative.
C11_EstimateIsCeiling ==
  estimated.tag = "estimateTokens" =>
    /\ estimated.tokens >= 0
    /\ 4 * estimated.tokens >= Len(estimated.text)
    /\ 4 * (estimated.tokens - 1) < Len(estimated.text)
    /\ estimated.text = "" => estimated.tokens = 0

\* C11 witness: a text of 5 characters was estimated at 2 tokens.
C11_Witness ==
  /\ estimated.tag = "estimateTokens"
  /\ Len(estimated.text) = 5
  /\ estimated.tokens = 2

\* The text cut at the first occurrence of sep, and so on: String.split.
RECURSIVE Split(_, _)
Split(text, sep) ==
  LET hits == {at \in 1..(Len(text) - Len(sep) + 1) :
                 SubSeq(text, at, at + Len(sep) - 1) = sep}
  IN  IF hits = {} THEN <<text>>
      ELSE LET at == CHOOSE h \in hits : \A g \in hits : h <= g
           IN  <<SubSeq(text, 1, at - 1)>>
                 \o Split(SubSeq(text, at + Len(sep), Len(text)), sep)

\* The segments of the last rendered text.
Segments == Split(rendered.text, options.separator)

\* The text after the label of the one segment that starts with the label.
SegmentBody(label) ==
  LET seg == CHOOSE part \in {Segments[i] : i \in 1..Len(Segments)} : HasPrefix(part, label)
  IN  SubSeq(seg, Len(label) + 1, Len(seg))

HasSegment(label) == \E i \in 1..Len(Segments) : HasPrefix(Segments[i], label)

\* shown is orig under the ceiling L: orig itself when it has at most L
\* characters, else its first L - 3 characters followed by '...'.
ShownUnderCeiling(orig, L, shown) ==
  IF Len(orig) <= L THEN shown = orig
  ELSE /\ Len(shown) = L
       /\ SubSeq(shown, 1, L - 3) = SubSeq(orig, 1, L - 3)
       /\ SubSeq(shown, L - 2, L) = "..."

MaxRequests == 3

Methods ==
  { "initialize", "memory/search", "memory/recall", "memory/save",
    "memory/timeline", "shutdown", "tools/list" }

MemoryMethods ==
  { "memory/search", "memory/recall", "memory/save", "memory/timeline" }

\* A `params` object whose properties are accessors that throw when read.
Trap == [tag |-> "trap"]

\* The `params` of a request: absent, complete, a save without its type, or
\* an object that throws when a property is read. A field that is absent is
\* the empty string (both are falsy).
ParamsPool ==
  { Undefined,
    [query |-> "q", context |-> "c", content |-> "x", type |-> "note"],
    [query |-> "", context |-> "", content |-> "x", type |-> ""],
    Trap }

\* `params?.name` as a condition
HasParam(params, name) == params \notin {Undefined, Trap} /\ params[name] # ""

\* The promise handleRequest returned has not resolved yet.
Pending == [kind |-> "pending", code |-> "", id |-> 0]

\* The promise handleRequest returned is rejected.
Rejected == [kind |-> "rejected", code |-> "", id |-> 0]

\* { jsonrpc: '2.0', id, result }
ResultResponse(id) == [kind |-> "result", code |-> "", id |-> id]

\* MCPHandlers.errorResponse
errorResponse(id, code) == [kind |-> "error", code |-> code, id |-> id]

\* Variant: the guard lets a shutdown through.
MustInitializeFirstMemoryOnly(method) ==
  method \notin {"initialize", "shutdown"} /\ ~initialized

\* `method !== 'initialize' && !this.initialized`
MustInitializeFirst(method) == method # "initialize" /\ ~initialized

\* The parameter check at the head of handleSearch / handleRecall /
\* handleSave; handleTimeline has none.
ParamsAccepted(method, params) ==
  CASE method = "memory/search" -> HasParam(params, "query")
    [] method = "memory/recall" -> HasParam(params, "context")
    [] method = "memory/save"   -> HasParam(params, "content") /\ HasParam(params, "type")
    [] OTHER                    -> TRUE

\* MCPHandlers.handleRequest up to its first suspension: the guard, the
\* dispatch, the handler's parameter check and the invocation of the memory
\* operation all run in the caller's turn. A response that is already
\* determined is recorded at once; the one of a memory operation is Pending
\* until the operation settles.
HandleRequest(method, params) ==
  /\ Len(requests) < MaxRequests
  /\ LET id == Len(requests) + 1
         answer(response, flag, ops) ==
           /\ responses' = Append(responses, response)
           /\ initialized' = flag
           /\ started' = ops
     IN  /\ requests' = Append(requests, [method |-> method, params |-> params])
         /\ CASE MustInitializeFirst(method) ->
                   answer(errorResponse(id, "NOT_INITIALIZED"), initialized, started)
              [] ~MustInitializeFirst(method) /\ method = "initialize" ->
                   \* handleInitialize is not async: what it throws when it
                   \* reads params.clientInfo, after the assignment, is caught
                   IF params = Trap
                   THEN answer(errorResponse(id, "INTERNAL_ERROR"), TRUE, started)
                   ELSE answer(ResultResponse(id), TRUE, started)
              [] ~MustInitializeFirst(method) /\ method \in MemoryMethods ->
                   \* the handlers are async and returned without await: what
                   \* they throw rejects the promise and passes the catch
                   IF params = Trap
                   THEN answer(Rejected, initialized,
                               IF method = "memory/timeline"
                               THEN started \cup {id} ELSE started)
                   ELSE IF ParamsAccepted(method, params)
                   THEN answer(Pending, initialized, started \cup {id})
                   ELSE answer(errorResponse(id, "INVALID_PARAMS"), initialized, started)
              [] ~MustInitializeFirst(method) /\ method = "shutdown" ->
                   answer(ResultResponse(id), FALSE, started)
              [] OTHER ->
                   answer(errorResponse(id, "METHOD_NOT_FOUND"), initialized, started)
  /\ UNCHANGED <<fmtVars, pfVars, laterVars>>

\* The memory operation of a request returns (searchMemories, recallContext,
\* saveMemory, getTimeline: none of them throws) and the handler builds the
\* result response.
MemoryOpSettles(id) ==
  /\ id \in 1..Len(responses)
  /\ responses[id] = Pending
  /\ responses' = [responses EXCEPT ![id] = ResultResponse(id)]
  /\ UNCHANGED <<initialized, requests, started, fmtVars, pfVars, laterVars>>

InitMcp ==
  /\ Init
  /\ options = DefaultOptions
  /\ observations = <<>>
  /\ summary = Undefined

NextMcp ==
  \/ \E method \in Methods, params \in ParamsPool : HandleRequest(method, params)
  \/ \E id \in 1..MaxRequests : MemoryOpSettles(id)

SpecMcp == InitMcp /\ [][NextMcp]_vars

\* An initialize request precedes request i with no shutdown in between.
InitializedBefore(i) ==
  \E j \in 1..(i - 1) :
    /\ requests[j].method = "initialize"
    /\ \A k \in (j + 1)..(i - 1) : requests[k].method # "shutdown"

\* C13: a request other than initialize that arrives when no initialize has
\* been processed more recently than any shutdown is answered with a
\* NOT_INITIALIZED error and starts no memory operation.
C13_RejectedUntilInitialized ==
  \A i \in 1..Len(requests) :
    (requests[i].method # "initialize" /\ ~InitializedBefore(i)) =>
      /\ responses[i] = errorResponse(i, "NOT_INITIALIZED")
      /\ i \notin started

\* initialize, shutdown, then a well-formed search that is rejected.
C13_Witness ==
  /\ Len(requests) = 3
  /\ requests[1].method = "initialize"
  /\ requests[2].method = "shutdown"
  /\ responses[2] = ResultResponse(2)
  /\ requests[3].method = "memory/search"
  /\ HasParam(requests[3].params, "query")
  /\ responses[3] = errorResponse(3, "NOT_INITIALIZED")
  /\ started = {}

\* Number of places where text occurs in s.
Occurrences(s, text) ==
  Cardinality({at \in 1..(Len(s) - Len(text) + 1) :
                 SubSeq(s, at, at + Len(text) - 1) = text})

\* Tokens charged for the summary block, if it is in the result.
SummaryCharge ==
  IF SummaryIn(result) THEN estimateTokens(SummaryText(summary)) ELSE 0

\* C14: with a non-empty observation sequence the heading and its fixed cost
\* are added exactly once, in front of every observation line and whatever
\* maxTokens is, also when no observation is included; with an empty
\* sequence neither is added. Before the heading step the result has none.
C14_HeadingOnceUnchecked ==
  /\ pc \in {"summary", "observations"} =>
       Occurrences(result, ObservationsHeader) = 0
  /\ pc \in {"loop", "done"} =>
       IF Len(observations) > 0
       THEN /\ Occurrences(result, ObservationsHeader) = 1
            /\ \E head \in Heads :
                 result = head \o ObservationsHeader \o PrefixText(Included)
            /\ currentTokens = SummaryCharge + HeaderTokens + PrefixTokens(Included)
       ELSE /\ Occurrences(result, ObservationsHeader) = 0
            /\ currentTokens = SummaryCharge

\* A positive budget below the heading's cost: the heading is there, charged,
\* and no observation follows it.
C14_Witness ==
  /\ pc = "done"
  /\ Len(observations) > 0
  /\ maxTokens > 0
  /\ maxTokens < HeaderTokens
  /\ Included = 0
  /\ result = ObservationsHeader
  /\ currentTokens = HeaderTokens

\* C15: the cost charged for the observations heading is the estimator's
\* value for the heading string the packer emits.
C15_HeadingCostIsEstimate ==
  (pc \in {"loop", "done"} /\ Len(observations) > 0) =>
    currentTokens =
      SummaryCharge + estimateTokens(ObservationsHeader) + PrefixTokens(Included)

\* ------------------------------------------------- the five-observation run
\* Largest budget of the runs over five observations.
MaxScenarioBudget == 130

\* An observation whose line '[ISSUE] t | <147 characters>\n' has 160
\* characters, 40 estimated tokens.
FortyObs == [BlankObs EXCEPT !.type = "issue", !.title = "t",
                             !.narrative = LongText(147)]

\* An observation whose line '[ISSUE] a\n' has 3 estimated tokens.
SmallObs == [BlankObs EXCEPT !.type = "issue", !.title = "a"]

\* Five observations, each of them large or small.
ScenarioObservations == [1..5 -> {FortyObs, SmallObs}]

InitScenario ==
  /\ options = DefaultOptions
  /\ observations \in ScenarioObservations
  /\ summary = Undefined
  /\ maxTokens = 0
  /\ pc = "idle"
  /\ result = ""
  /\ currentTokens = 0
  /\ obsIdx = 1
  /\ prev = NoCall
  /\ rendered = NoRender
  /\ estimated = NoEstimate
  /\ McpInit
  /\ PfInit
  /\ LaterInit

\* A formatWithBudget call with a budget of the size of these observations.
FormatWithBudgetScenarioCall ==
  /\ UNCHANGED <<estimated, beyondFormatter>>
  /\ Returned
  /\ \E budget \in 0..MaxScenarioBudget : maxTokens' = budget
  /\ result' = ""
  /\ currentTokens' = 0
  /\ obsIdx' = 1
  /\ pc' = "summary"
  /\ UNCHANGED <<options, observations, summary, prev, rendered>>

NextScenario ==
  \/ FormatWithBudgetScenarioCall
  \/ SummaryStep
  \/ HeaderStep
  \/ LoopStep

SpecScenario == InitScenario /\ [][NextScenario]_vars

\* 5 + c1 + ... + cj <= maxTokens for every j <= k.
FitsUpTo(k) == \A j \in 1..k : 5 + PrefixTokens(j) <= maxTokens

\* C16: with no summary and a non-empty sequence the number of included
\* observations is the largest k with 5 + c1 + ... + cj <= maxTokens for
\* every j <= k; five observations of 40 tokens and maxTokens = 100 give
\* exactly the first two.
C16_GreedyCount ==
  (pc = "done" /\ summary = Undefined /\ Len(observations) > 0) =>
    /\ FitsUpTo(Included)
    /\ \A k \in (Included + 1)..Len(observations) : ~FitsUpTo(k)
    /\ ( /\ Len(observations) = 5
         /\ \A j \in 1..5 : ObsTokensAt(j) = 40
         /\ maxTokens = 100 ) =>
         /\ Included = 2
         /\ result = ObservationsHeader \o PrefixText(2)

C16_Witness ==
  /\ pc = "done"
  /\ summary = Undefined
  /\ Len(observations) = 5
  /\ \A j \in 1..5 : ObsTokensAt(j) = 40
  /\ maxTokens = 100
  /\ Included = 2
  /\ currentTokens = 85

Count(cond) == IF cond THEN 1 ELSE 0

\* The first min(3, n) of n items.
FirstThree(items) == SubSeq(items, 1, IF Len(items) < 3 THEN Len(items) ELSE 3)

\* C17: a rendered observation consists of the type-and-title segment, the
\* narrative if there is one, and one segment for each of facts, concepts,
\* files whose flag is on and whose list is non-empty, and of nothing else: a
\* segment whose flag is off or whose list is empty is absent, no segment is
\* empty and no separator is left over. The Facts segment shows the first
\* min(3, n) facts in input order. A rendered summary has one segment per
\* non-empty slot and is empty when all three slots are.
C17_OptionalSegments ==
  /\ rendered.tag = "formatObservation" =>
       LET obs == observations[rendered.arg]
           facts == parseArray(obs.facts)
           concepts == parseArray(obs.concepts)
           files == parseArray(obs.files_modified)
           showFacts == options.includeFacts /\ Len(facts) > 0
           showConcepts == options.includeConcepts /\ Len(concepts) > 0
           showFiles == options.includeFiles /\ Len(files) > 0
           base == 1 + Count(obs.narrative # "")
       IN  /\ Len(Segments) = base + Count(showFacts) + Count(showConcepts)
                                + Count(showFiles)
           /\ \A i \in 1..Len(Segments) : Segments[i] # ""
           /\ showFacts =>
                Segments[base + 1] = "Facts: " \o Join(FirstThree(facts), "; ")
           /\ ~showFacts => ~HasSegment("Facts: ")
           /\ showConcepts =>
                Segments[base + 1 + Count(showFacts)] = "[" \o Join(concepts, ", ") \o "]"
           /\ showFiles => HasPrefix(Segments[Len(Segments)], "Files: ")
           /\ ~showFiles => ~HasSegment("Files: ")
  /\ rendered.tag = "formatSummary" =>
       LET slots == Count(summary.completed # "") + Count(summary.learned # "")
                      + Count(summary.next_steps # "")
       IN  /\ IF slots = 0 THEN rendered.text = ""
              ELSE /\ Len(Segments) = slots
                   /\ \A i \in 1..slots : Segments[i] # ""
           /\ summary.completed = "" => ~HasSegment("Done: ")
           /\ summary.learned = "" => ~HasSegment("Learned: ")
           /\ summary.next_steps = "" => ~HasSegment("Next: ")

\* Five facts, an empty concept list and files switched off: the rendering
\* is the title and the first three facts.
C17_Witness ==
  /\ rendered.tag = "formatObservation"
  /\ options = DefaultOptions
  /\ Len(parseArray(observations[rendered.arg].facts)) = 5
  /\ Len(parseArray(observations[rendered.arg].concepts)) = 0
  /\ Len(parseArray(observations[rendered.arg].files_modified)) = 2
  /\ rendered.text = "[DISCOVERY] t | Facts: p; q; r"

\* The value is a string holding a JSON array.
JsonArrayText(value) ==
  value.tag = "string" /\ JSONParse(value.text).ok /\ JSONParse(value.text).isArray

\* The value is neither a native list nor a string holding a JSON array.
Malformed(value) == value.tag # "array" /\ ~JsonArrayText(value)

\* What the array-field parser has to yield for the value.
ListOf(value) ==
  IF value.tag = "array" THEN value.items
  ELSE IF JsonArrayText(value) THEN JSONParse(value.text).items
  ELSE <<>>

\* C18: array-field parsing yields the native list itself, the array a JSON
\* string holds, and the empty list for every other value; a rendering of an
\* observation with a malformed array field is the rendering of the same
\* observation with that list empty, so the field's segment is absent.
C18_ParseNeverFails ==
  rendered.tag = "formatObservation" =>
    LET obs == observations[rendered.arg]
    IN  /\ \A value \in {obs.facts, obs.concepts, obs.files_modified} :
             parseArray(value) = ListOf(value)
        /\ rendered.text =
             formatObservation([obs EXCEPT !.facts = Arr(ListOf(obs.facts)),
                                           !.concepts = Arr(ListOf(obs.concepts)),
                                           !.files_modified = Arr(ListOf(obs.files_modified))])
        /\ Malformed(obs.facts) => ~HasSegment("Facts: ")
        /\ Malformed(obs.files_modified) => ~HasSegment("Files: ")
        /\ ( /\ Malformed(obs.facts)
             /\ Malformed(obs.concepts)
             /\ Malformed(obs.files_modified) ) =>
             Len(Segments) = 1 + Count(obs.narrative # "")

\* Facts and files are switched on and hold an unparseable string and null:
\* the rendering is the type and title alone.
C18_Witness ==
  /\ rendered.tag = "formatObservation"
  /\ options.includeFacts
  /\ options.includeFiles
  /\ observations[rendered.arg].facts = Str("oops")
  /\ observations[rendered.arg].files_modified = Null
  /\ rendered.text = "[DISCOVERY] t"

\* The summary block: the heading line and the line of the rendered summary.
SummaryBlock == "## Summary\n" \o formatSummary(summary) \o "\n"

\* The observations block so far: the heading line and the included lines.
ObservationsBlock == ObservationsHeader \o PrefixText(Included)

\* C19: when the summary is included and the observation sequence is not
\* empty, the output is the summary block, one empty line, and the
\* observations block, in this order and with nothing else.
C19_BlocksJoinedByBlankLine ==
  ( /\ pc \in {"loop", "done"}
    /\ summary # Undefined
    /\ HasPrefix(result, "## Summary\n")
    /\ Len(observations) > 0 ) =>
    /\ result = SummaryBlock \o "\n" \o ObservationsBlock
    /\ Occurrences(result, "## Summary\n") = 1
    /\ Occurrences(result, ObservationsHeader) = 1

\* The call returned the summary 'Done: x' and one observation behind it.
C19_Witness ==
  /\ pc = "done"
  /\ summary # Undefined
  /\ Included = 1
  /\ result = "## Summary\nDone: x\n\n## Observations\n" \o PrefixText(1)

\* ---------------------------------------------------------- ProjectFilter
\* Longest list handed to selectMultiple and filter.
MaxItems == 3

Projects == {"a", "b", "c"}

\* The lists of projects a caller passes; an item of filter() is
\* represented by the project its getProject yields.
ProjectLists == SeqsUpTo(Projects, MaxItems)

\* The record of a call.
Called(method, project, items, value, kept) ==
  [method |-> method, project |-> project, items |-> items, value |-> value,
   kept |-> kept]

\* Variant: only the first test is different, a project counts as matching
\* when nothing is selected even if it is excluded.
matchesSelectionFirst(project) ==
  IF selectedProjects = {} THEN TRUE
  ELSE IF project \in excludedProjects THEN FALSE
  ELSE project \in selectedProjects

\* ProjectFilter.matches
matches(project) ==
  IF project \in excludedProjects THEN FALSE
  ELSE IF selectedProjects = {} THEN TRUE
  ELSE project \in selectedProjects

\* The sets before this toggle call, behind those before the previous call
\* if that was a toggle of the same project.
Trail(project) ==
  LET now == [project |-> project, selected |-> selectedProjects,
              excluded |-> excludedProjects]
  IN  IF toggleTrail # <<>> /\ toggleTrail[Len(toggleTrail)].project = project
      THEN <<toggleTrail[Len(toggleTrail)], now>>
      ELSE <<now>>

\* ProjectFilter.select
Select(project) ==
  /\ selectedProjects' = selectedProjects \cup {project}
  /\ excludedProjects' = excludedProjects \ {project}
  /\ lastCall' = Called("select", project, <<>>, FALSE, <<>>)
  /\ toggleTrail' = <<>>
  /\ UNCHANGED <<fmtVars, mcpVars, laterVars>>

\* ProjectFilter.selectMultiple: select() for each project of the list
SelectMultiple(projects) ==
  LET listed == {projects[i] : i \in 1..Len(projects)}
  IN  /\ selectedProjects' = selectedProjects \cup listed
      /\ excludedProjects' = excludedProjects \ listed
      /\ lastCall' = Called("selectMultiple", "", projects, FALSE, <<>>)
      /\ toggleTrail' = <<>>
      /\ UNCHANGED <<fmtVars, mcpVars, laterVars>>

\* ProjectFilter.deselect
Deselect(project) ==
  /\ selectedProjects' = selectedProjects \ {project}
  /\ lastCall' = Called("deselect", project, <<>>, FALSE, <<>>)
  /\ toggleTrail' = <<>>
  /\ UNCHANGED <<excludedProjects, fmtVars, mcpVars, laterVars>>

\* Variant: exclude() leaves the selection alone.
ExcludeKeepsSelection(project) ==
  /\ excludedProjects' = excludedProjects \cup {project}
  /\ lastCall' = Called("exclude", project, <<>>, FALSE, <<>>)
  /\ toggleTrail' = <<>>
  /\ UNCHANGED <<selectedProjects, fmtVars, mcpVars, laterVars>>

\* ProjectFilter.exclude
Exclude(project) ==
  /\ excludedProjects' = excludedProjects \cup {project}
  /\ selectedProjects' = selectedProjects \ {project}
  /\ lastCall' = Called("exclude", project, <<>>, FALSE, <<>>)
  /\ toggleTrail' = <<>>
  /\ UNCHANGED <<fmtVars, mcpVars, laterVars>>

\* Variant: toggle() of a selected project leaves it selected.
ToggleSticky(project) ==
  /\ IF project \in selectedProjects
     THEN /\ UNCHANGED <<selectedProjects, excludedProjects>>
          /\ lastCall' = Called("toggle", project, <<>>, FALSE, <<>>)
     ELSE /\ selectedProjects' = selectedProjects \cup {project}
          /\ excludedProjects' = excludedProjects \ {project}
          /\ lastCall' = Called("toggle", project, <<>>, TRUE, <<>>)
  /\ toggleTrail' = Trail(project)
  /\ UNCHANGED <<fmtVars, mcpVars, laterVars>>

\* ProjectFilter.toggle: deselect() and false if selected, else select() and
\* true
Toggle(project) ==
  /\ IF project \in selectedProjects
     THEN /\ selectedProjects' = selectedProjects \ {project}
          /\ UNCHANGED excludedProjects
          /\ lastCall' = Called("toggle", project, <<>>, FALSE, <<>>)
     ELSE /\ selectedProjects' = selectedProjects \cup {project}
          /\ excludedProjects' = excludedProjects \ {project}
          /\ lastCall' = Called("toggle", project, <<>>, TRUE, <<>>)
  /\ toggleTrail' = Trail(project)
  /\ UNCHANGED <<fmtVars, mcpVars, laterVars>>

\* ProjectFilter.clear
Clear ==
  /\ selectedProjects' = {}
  /\ excludedProjects' = {}
  /\ lastCall' = Called("clear", "", <<>>, FALSE, <<>>)
  /\ toggleTrail' = <<>>
  /\ UNCHANGED <<fmtVars, mcpVars, laterVars>>

\* ProjectFilter.selectOnly: clear() then select()
SelectOnly(project) ==
  /\ selectedProjects' = {project}
  /\ excludedProjects' = {}
  /\ lastCall' = Called("selectOnly", project, <<>>, FALSE, <<>>)
  /\ toggleTrail' = <<>>
  /\ UNCHANGED <<fmtVars, mcpVars, laterVars>>

\* A call of ProjectFilter.matches
Matches(project) ==
  /\ lastCall' = Called("matches", project, <<>>, matches(project), <<>>)
  /\ UNCHANGED <<selectedProjects, excludedProjects, toggleTrail, fmtVars, mcpVars, laterVars>>

\* A call of ProjectFilter.filter: `items.filter(item =>
\* this.matches(getProject(item)))`
Filter(items) ==
  /\ lastCall' = Called("filter", "", items, FALSE, SelectSeq(items, matches))
  /\ UNCHANGED <<selectedProjects, excludedProjects, toggleTrail, fmtVars, mcpVars, laterVars>>

InitPf ==
  /\ Init
  /\ options = DefaultOptions
  /\ observations = <<>>
  /\ summary = Undefined

NextPf ==
  \/ \E project \in Projects : Select(project)
  \/ \E projects \in ProjectLists : SelectMultiple(projects)
  \/ \E project \in Projects : Deselect(project)
  \/ \E project \in Projects : Exclude(project)
  \/ \E project \in Projects : Toggle(project)
  \/ Clear
  \/ \E project \in Projects : SelectOnly(project)
  \/ \E project \in Projects : Matches(project)
  \/ \E items \in ProjectLists : Filter(items)

SpecPf == InitPf /\ [][NextPf]_vars

\* What the claim says matches(project) is in the current state.
ShouldMatch(project) ==
  IF project \in excludedProjects THEN FALSE
  ELSE (selectedProjects = {} \/ project \in selectedProjects)

\* The items at the positions where keep is true, in their order.
RECURSIVE KeptFrom(_, _)
KeptFrom(items, keep) ==
  IF items = <<>> THEN <<>>
  ELSE (IF keep[1] THEN <<items[1]>> ELSE <<>>)
         \o KeptFrom(Tail(items), Tail(keep))

\* C20: matches(p) is false for an excluded p; for any other p it is true
\* when no project is selected and otherwise true exactly when p is
\* selected; filter(items) is the items whose project matches, in their order.
C20_MatchesAndFilter ==
  /\ lastCall.method = "matches" =>
       LET p == lastCall.project
       IN  /\ p \in excludedProjects => lastCall.value = FALSE
           /\ (p \notin excludedProjects /\ selectedProjects = {}) =>
                lastCall.value = TRUE
           /\ (p \notin excludedProjects /\ selectedProjects # {}) =>
                lastCall.value = (p \in selectedProjects)
  /\ lastCall.method = "filter" =>
       lastCall.kept =
         KeptFrom(lastCall.items,
                  [i \in 1..Len(lastCall.items) |-> ShouldMatch(lastCall.items[i])])

\* One project selected, another excluded, and a list holding both and a
\* third, of which filter keeps the selected one.
C20_Witness ==
  /\ lastCall.method = "filter"
  /\ selectedProjects = {"a"}
  /\ excludedProjects = {"b"}
  /\ lastCall.items = <<"b", "a", "c">>
  /\ lastCall.kept = <<"a">>

\* -------------------------------------------- mergeAndDeduplicateByProject
\* Longest list handed to mergeAndDeduplicateByProject.
MaxMerge == 3

\* Items with an id; rev tells two items with the same id apart.
MergeItems == [id : {1, 2}, rev : {"x", "y"}]

MergeLists == SeqsUpTo(MergeItems, MaxMerge)

\* One `for (const item of ...)` loop: an item whose id is not in `seen` is
\* added to `seen` and pushed to `result`.
RECURSIVE AddUnseen(_, _, _)
AddUnseen(items, seen, pushed) ==
  IF items = <<>> THEN [seen |-> seen, result |-> pushed]
  ELSE IF Head(items).id \in seen
       THEN AddUnseen(Tail(items), seen, pushed)
       ELSE AddUnseen(Tail(items), seen \cup {Head(items).id},
                      Append(pushed, Head(items)))

\* Variant: the paginated list is taken first.
mergeAndDeduplicatePaginatedFirst(live, paginated) ==
  LET first == AddUnseen(paginated, {}, <<>>)
  IN  AddUnseen(live, first.seen, first.result).result

\* mergeAndDeduplicateByProject
mergeAndDeduplicateByProject(live, paginated) ==
  LET first == AddUnseen(live, {}, <<>>)
  IN  AddUnseen(paginated, first.seen, first.result).result

\* A call on the caller's two lists; the function assigns to neither.
MergeCall ==
  /\ merged' = [tag |-> "call", live |-> liveData, paginated |-> paginatedData,
                result |-> mergeAndDeduplicateByProject(liveData, paginatedData)]
  /\ UNCHANGED <<liveData, paginatedData>>
  /\ UNCHANGED <<fmtVars, mcpVars, pfVars, dateVars, favVars, hookVars>>

\* The formatter as constructed with the default options, nothing to format.
FormatterIdle ==
  /\ options = DefaultOptions
  /\ observations = <<>>
  /\ summary = Undefined
  /\ maxTokens = 0
  /\ pc = "idle"
  /\ result = ""
  /\ currentTokens = 0
  /\ obsIdx = 1
  /\ prev = NoCall
  /\ rendered = NoRender
  /\ estimated = NoEstimate

InitMerge ==
  /\ FormatterIdle
  /\ McpInit
  /\ PfInit
  /\ liveData \in MergeLists
  /\ paginatedData \in MergeLists
  /\ merged = NoMerge
  /\ DateInit
  /\ FavInit
  /\ HookInit

NextMerge == MergeCall

SpecMerge == InitMerge /\ [][NextMerge]_vars

IdsOf(list) == {list[i].id : i \in 1..Len(list)}

\* Position i holds the first item of the list with its id.
FirstAt(list, i) == \A j \in 1..(i - 1) : list[j].id # list[i].id

\* The items of the list at the given positions, in the list's order.
RECURSIVE PickFrom(_, _, _)
PickFrom(list, positions, i) ==
  IF i > Len(list) THEN <<>>
  ELSE (IF i \in positions THEN <<list[i]>> ELSE <<>>)
         \o PickFrom(list, positions, i + 1)

\* C21: the returned list holds every id of either input exactly once; it is
\* the first occurrences of liveData in their order followed by the first
\* occurrences of paginatedData whose id liveData does not have, in their
\* order; and both inputs are what they were when passed.
C21_MergeKeepsFirst ==
  merged.tag = "call" =>
    LET live == merged.live
        paginated == merged.paginated
        out == merged.result
        livePositions == {i \in 1..Len(live) : FirstAt(live, i)}
        paginatedPositions ==
          {i \in 1..Len(paginated) :
             FirstAt(paginated, i) /\ paginated[i].id \notin IdsOf(live)}
    IN  /\ \A i, j \in 1..Len(out) : i # j => out[i].id # out[j].id
        /\ IdsOf(out) = IdsOf(live) \cup IdsOf(paginated)
        /\ out = PickFrom(live, livePositions, 1)
                   \o PickFrom(paginated, paginatedPositions, 1)
        /\ liveData = live
        /\ paginatedData = paginated

\* Id 1 twice in liveData and again in paginatedData, id 2 only there.
C21_Witness ==
  /\ merged.tag = "call"
  /\ merged.live = <<[id |-> 1, rev |-> "x"], [id |-> 1, rev |-> "y"]>>
  /\ merged.paginated = <<[id |-> 1, rev |-> "y"], [id |-> 2, rev |-> "x"]>>
  /\ merged.result = <<[id |-> 1, rev |-> "x"], [id |-> 2, rev |-> "x"]>>

\* The last initialize or shutdown that was processed is a shutdown.
ShutDown ==
  /\ ~initialized
  /\ \E j \in 1..Len(requests) :
       requests[j].method = "shutdown" /\ responses[j] = ResultResponse(j)

\* C22: no memory request resolves to a success response while the handler
\* is shut down, also not one that was received before the shutdown.
C22_NoSuccessAfterShutdown ==
  [][\A id \in 1..Len(requests) :
       ( /\ requests[id].method \in MemoryMethods
         /\ responses[id] = Pending
         /\ responses'[id] = ResultResponse(id) ) => ~ShutDown]_vars

\* C23: handleRequest never rejects, and every response it resolves to is a
\* result or an error with the request's id; a request whose serving failed
\* has the INTERNAL_ERROR response.
C23_NeverRejects ==
  \A id \in 1..Len(requests) :
    /\ responses[id] # Rejected
    /\ responses[id] # Pending =>
         responses[id].kind \in {"result", "error"} /\ responses[id].id = id
    /\ ( /\ requests[id].params = Trap
         /\ requests[id].method \in MemoryMethods \cup {"initialize"}
         /\ responses[id] # errorResponse(id, "NOT_INITIALIZED") ) =>
         responses[id] = errorResponse(id, "INTERNAL_ERROR")

\* C24: no project is both selected and excluded.
C24_SelectedExcludedDisjoint == selectedProjects \cap excludedProjects = {}

\* A selected project has just been excluded, next to another selected one.
C24_Witness ==
  /\ lastCall.method = "exclude"
  /\ lastCall.project = "a"
  /\ selectedProjects = {"b"}
  /\ excludedProjects = {"a"}

\* toggle(p) has just been applied twice in a row.
ToggledTwice == Len(toggleTrail) = 2

\* C25 as stated: after toggle(p) twice in a row both sets are what they
\* were before the first call.
C25_ToggleTwiceRestores ==
  ToggledTwice =>
    /\ selectedProjects = toggleTrail[1].selected
    /\ excludedProjects = toggleTrail[1].excluded

\* C25: after toggle(p) twice in a row the selected set is what it was
\* before the first call; so is the excluded set when p was not excluded,
\* and when p was excluded the excluded set has lost p.
C25_ToggleTwiceRestoresUnlessExcluded ==
  ToggledTwice =>
    LET p == toggleTrail[1].project
        before == toggleTrail[1]
    IN  /\ selectedProjects = before.selected
        /\ p \notin before.excluded => excludedProjects = before.excluded
        /\ p \in before.excluded => excludedProjects = before.excluded \ {p}

\* A selected project, next to an excluded other one, was toggled twice.
C25_Witness ==
  /\ ToggledTwice
  /\ toggleTrail[1].project = "a"
  /\ toggleTrail[1].selected = {"a"}
  /\ toggleTrail[1].excluded = {"b"}
  /\ toggleTrail[2].selected = {}
  /\ selectedProjects = {"a"}
  /\ excludedProjects = {"b"}

\* ------------------------------------------------------------- DateFilter
\* Latest instant, in ticks; a day has DayTicks of them.
MaxTime == 7

Times == 0..MaxTime

DayTicks == 2

\* Lengths of the calendar periods whose start presetToRange computes, in
\* days (a short calendar: the week has 2 days, the month 2 weeks).
PeriodDays ==
  [week |-> 2, month |-> 4, quarter |-> 12, year |-> 48]

DatePresets == {"today", "yesterday", "week", "month", "quarter", "year", "all"}

\* Lists of dates handed to filter().
DateLists == SeqsUpTo(Times, 2)

Range(start, end) == [start |-> start, end |-> end, set |-> TRUE]

\* DateFilter.presetToRange, the clock reading `now`
presetToRange(preset, now) ==
  LET today == now - (now % DayTicks)
      startOf(days) == now - (now % (days * DayTicks))
  IN  CASE preset = "today"     -> Range(today, today + DayTicks - 1)
        [] preset = "yesterday" -> Range(today - DayTicks, today - 1)
        [] preset = "week"      -> Range(startOf(PeriodDays.week), now)
        [] preset = "month"     -> Range(startOf(PeriodDays.month), now)
        [] preset = "quarter"   -> Range(startOf(PeriodDays.quarter), now)
        [] preset = "year"      -> Range(startOf(PeriodDays.year), now)
        [] OTHER                -> NoRange

\* DateFilter.matches
dateMatches(date) ==
  IF ~dateRange.set THEN TRUE
  ELSE date >= dateRange.start /\ date <= dateRange.end

beyondDate == <<fmtVars, mcpVars, pfVars, mergeVars, favVars, hookVars>>

\* DateFilter.setRange
DateSetRange(start, end) ==
  /\ dateRange' = Range(start, end)
  /\ datePreset' = "all"
  /\ dateCall' = [method |-> "setRange", date |-> 0, items |-> <<>>, value |-> FALSE,
                  kept |-> <<>>]
  /\ UNCHANGED beyondDate

\* DateFilter.setPreset
DateSetPreset(preset, now) ==
  /\ datePreset' = preset
  /\ dateRange' = presetToRange(preset, now)
  /\ dateCall' = [method |-> "setPreset", date |-> 0, items |-> <<>>, value |-> FALSE,
                  kept |-> <<>>]
  /\ UNCHANGED beyondDate

\* DateFilter.clear
DateClear ==
  /\ dateRange' = NoRange
  /\ datePreset' = "all"
  /\ dateCall' = [method |-> "clear", date |-> 0, items |-> <<>>, value |-> FALSE,
                  kept |-> <<>>]
  /\ UNCHANGED beyondDate

\* A call of DateFilter.matches
DateMatches(date) ==
  /\ dateCall' = [method |-> "matches", date |-> date, items |-> <<>>,
                  value |-> dateMatches(date), kept |-> <<>>]
  /\ UNCHANGED <<dateRange, datePreset, beyondDate>>

\* A call of DateFilter.filter
DateFilterItems(items) ==
  /\ dateCall' = [method |-> "filter", date |-> 0, items |-> items, value |-> FALSE,
                  kept |-> IF ~dateRange.set THEN items
                           ELSE SelectSeq(items, dateMatches)]
  /\ UNCHANGED <<dateRange, datePreset, beyondDate>>

\* A call of DateFilter.isActive:
\* `this.range !== null && this.preset !== 'all'`
DateIsActive ==
  /\ dateCall' = [method |-> "isActive", date |-> 0, items |-> <<>>,
                  value |-> (dateRange.set /\ datePreset # "all"), kept |-> <<>>]
  /\ UNCHANGED <<dateRange, datePreset, beyondDate>>

InitDate ==
  /\ FormatterIdle
  /\ McpInit
  /\ PfInit
  /\ MergeInit
  /\ DateInit
  /\ FavInit
  /\ HookInit

NextDate ==
  \/ \E start, end \in Times : DateSetRange(start, end)
  \/ \E preset \in DatePresets, now \in Times : DateSetPreset(preset, now)
  \/ DateClear
  \/ \E date \in Times : DateMatches(date)
  \/ \E items \in DateLists : DateFilterItems(items)
  \/ DateIsActive

SpecDate == InitDate /\ [][NextDate]_vars

\* C26: isActive() is true exactly when a range is set.
C26_ActiveIffRangeSet ==
  dateCall.method = "isActive" => dateCall.value = dateRange.set

\* ------------------------------------------------------- FavoritesManager
Handlers == {"h1", "h2", "h3"}

FavoriteIds == {1, 2}

beyondFavorites == <<fmtVars, mcpVars, pfVars, mergeVars, dateVars, hookVars>>

\* The items of a sequence.
Range1(seq) == {seq[i] : i \in 1..Len(seq)}

\* The listeners in front of the first one that throws, and that one.
RECURSIVE UpToFirstThrow(_, _)
UpToFirstThrow(handlers, throwers) ==
  IF handlers = <<>> THEN {}
  ELSE IF Head(handlers) \in throwers THEN {Head(handlers)}
  ELSE {Head(handlers)} \cup UpToFirstThrow(Tail(handlers), throwers)

\* Variant: no try/catch around the listener call, the first exception ends
\* the loop and leaves emit.
emitUnguarded(throwers) ==
  [received |-> UpToFirstThrow(listeners, throwers),
   threw |-> UpToFirstThrow(listeners, throwers) \cap throwers,
   returned |-> Range1(listeners) \cap throwers = {}]

\* FavoritesManager.emit: every listener is called inside try/catch; the
\* listeners in `throwers` throw when called.
emit(throwers) ==
  [received |-> Range1(listeners),
   threw |-> Range1(listeners) \cap throwers,
   returned |-> TRUE]

\* The record of an operation that emitted an event.
Emitted(op, id, value, event, throwers) ==
  LET sent == emit(throwers)
  IN  [op |-> op, id |-> id, returned |-> sent.returned, value |-> value,
       event |-> event, registered |-> listeners, received |-> sent.received,
       threw |-> sent.threw]

\* The record of an operation that emitted nothing.
Silent(op, id, value) ==
  [op |-> op, id |-> id, returned |-> TRUE, value |-> value, event |-> "none",
   registered |-> listeners, received |-> {}, threw |-> {}]

\* FavoritesManager.on
On(handler) ==
  /\ listeners' = IF handler \in Range1(listeners) THEN listeners
                  ELSE Append(listeners, handler)
  /\ unsubscribed' = unsubscribed \ {handler}
  /\ favCall' = Silent("on", 0, FALSE)
  /\ UNCHANGED <<favorites, beyondFavorites>>

\* Variant: the function on() returns deletes nothing.
UnsubscribeForgets(handler) ==
  /\ unsubscribed' = unsubscribed \cup {handler}
  /\ favCall' = Silent("unsubscribe", 0, FALSE)
  /\ UNCHANGED <<listeners, favorites, beyondFavorites>>

\* The function on() returned for the handler:
\* `() => this.listeners.delete(handler)`
Unsubscribe(handler) ==
  /\ listeners' = SelectSeq(listeners, LAMBDA h : h # handler)
  /\ unsubscribed' = unsubscribed \cup {handler}
  /\ favCall' = Silent("unsubscribe", 0, FALSE)
  /\ UNCHANGED <<favorites, beyondFavorites>>

\* FavoritesManager.add
FavAdd(id, throwers) ==
  /\ favorites' = favorites \cup {id}
  /\ favCall' = Emitted("add", id, TRUE, "add", throwers)
  /\ UNCHANGED <<listeners, unsubscribed, beyondFavorites>>

\* FavoritesManager.remove: the event is emitted if the store removed
FavRemove(id, throwers) ==
  /\ favorites' = favorites \ {id}
  /\ favCall' = IF id \in favorites
                THEN Emitted("remove", id, TRUE, "remove", throwers)
                ELSE Silent("remove", id, FALSE)
  /\ UNCHANGED <<listeners, unsubscribed, beyondFavorites>>

\* FavoritesManager.toggle
FavToggle(id, throwers) ==
  /\ favorites' = IF id \in favorites THEN favorites \ {id} ELSE favorites \cup {id}
  /\ favCall' = IF id \in favorites
                THEN Emitted("toggle", id, FALSE, "remove", throwers)
                ELSE Emitted("toggle", id, TRUE, "add", throwers)
  /\ UNCHANGED <<listeners, unsubscribed, beyondFavorites>>

\* FavoritesManager.updateNote: the event is emitted if the store updated
FavUpdateNote(id, throwers) ==
  /\ favCall' = IF id \in favorites
                THEN Emitted("updateNote", id, TRUE, "update", throwers)
                ELSE Silent("updateNote", id, FALSE)
  /\ UNCHANGED <<favorites, listeners, unsubscribed, beyondFavorites>>

\* FavoritesManager.clear
FavClear(throwers) ==
  /\ favorites' = {}
  /\ favCall' = Emitted("clear", 0, TRUE, "clear", throwers)
  /\ UNCHANGED <<listeners, unsubscribed, beyondFavorites>>

InitFavorites ==
  /\ FormatterIdle
  /\ McpInit
  /\ PfInit
  /\ MergeInit
  /\ DateInit
  /\ FavInit
  /\ HookInit

NextFavorites ==
  \/ \E handler \in Handlers : On(handler)
  \/ \E handler \in Handlers : Unsubscribe(handler)
  \/ \E id \in FavoriteIds, throwers \in SUBSET Handlers : FavAdd(id, throwers)
  \/ \E id \in FavoriteIds, throwers \in SUBSET Handlers : FavRemove(id, throwers)
  \/ \E id \in FavoriteIds, throwers \in SUBSET Handlers : FavToggle(id, throwers)
  \/ \E id \in FavoriteIds, throwers \in SUBSET Handlers : FavUpdateNote(id, throwers)
  \/ \E throwers \in SUBSET Handlers : FavClear(throwers)

SpecFavorites == InitFavorites /\ [][NextFavorites]_vars

\* C27: an operation that emits an event delivers it to every registered
\* listener, whichever of them throw, and returns its normal result; no
\* handler whose unsubscribe function was called since it was last registered
\* receives the event.
C27_ListenersIsolated ==
  /\ favCall.op # "none" => favCall.returned
  /\ favCall.event # "none" =>
       /\ favCall.received = Range1(favCall.registered)
       /\ favCall.threw \subseteq favCall.received
       /\ favCall.received \cap unsubscribed = {}
       /\ favCall.op \in {"add", "remove", "updateNote", "clear"} => favCall.value
       /\ favCall.op = "toggle" => favCall.value = (favCall.id \in favorites)
       /\ favCall.event = "add" => favCall.id \in favorites
       /\ favCall.event = "remove" => favCall.id \notin favorites

\* The first of two listeners threw on an add event and the second received
\* it; a third handler had unsubscribed before.
C27_Witness ==
  /\ favCall.op = "add"
  /\ favCall.registered = <<"h1", "h2">>
  /\ favCall.threw = {"h1"}
  /\ favCall.received = {"h1", "h2"}
  /\ unsubscribed = {"h3"}
  /\ favCall.returned

\* ---------------------------------------------------------- OpenClawHooks
\* The lifecycle hooks of the OpenClaw extension. A hook is an async method:
\* it runs up to its first await when it is called and the rest later, so
\* other hooks can run in between.

\* The most entries a session's list is let grow to.
MaxMemories == 6

\* The most observations one onResponse extracts.
MaxExtracted == 2

Sessions == {"A", "B"}

\* The hooks consult only how many entries a list holds, never their content.
Entry == "observation"

\* onSessionEnd summarises a session with more entries than this.
SummaryThreshold == 5

\* this.sessionMemories.get(id) || []
MemoriesOf(map, id) == IF id \in DOMAIN map THEN map[id] ELSE <<>>

\* Map.set
MapSet(map, id, value) ==
  [k \in DOMAIN map \cup {id} |-> IF k = id THEN value ELSE map[k]]

\* Map.delete
MapDelete(map, id) == [k \in DOMAIN map \ {id} |-> map[k]]

\* The map after saveMemory(entry): the entry goes to the current session's
\* list, and nowhere when there is no current session.
saveMemory(map, current) ==
  IF current # NoSession
  THEN MapSet(map, current, Append(MemoriesOf(map, current), Entry))
  ELSE map

HookCalled(method, session, observed, searched, savedTo) ==
  [method |-> method, session |-> session, observations |-> observed,
   searched |-> searched, savedTo |-> savedTo]

\* The current session's list has room for one more entry.
Room ==
  \/ currentSession = NoSession
  \/ Len(MemoriesOf(sessionMemories, currentSession)) < MaxMemories

\* onSessionStart up to its await of loadSessionMemories.
OnSessionStart(session) ==
  /\ currentSession' = session
  /\ loading' = loading \cup {session}
  /\ keptOpen' = NoSession
  /\ hookCall' = HookCalled("onSessionStart", session, 0, FALSE, NoSession)
  /\ UNCHANGED <<sessionMemories, summarising, saving>>
  /\ UNCHANGED <<fmtVars, mcpVars, pfVars, mergeVars, dateVars, favVars>>

\* onSessionStart after the await: the loaded list, which is empty, is set.
SessionLoaded(session) ==
  /\ session \in loading
  /\ sessionMemories' = MapSet(sessionMemories, session, <<>>)
  /\ loading' = loading \ {session}
  /\ UNCHANGED <<currentSession, summarising, saving, keptOpen, hookCall>>
  /\ UNCHANGED <<fmtVars, mcpVars, pfVars, mergeVars, dateVars, favVars>>

\* onMessage: without a current session it returns at once; with one it
\* searches the memories, finds none and returns no context.
OnMessage ==
  /\ hookCall' = HookCalled("onMessage", currentSession, 0,
                            currentSession # NoSession, NoSession)
  /\ UNCHANGED <<currentSession, sessionMemories, loading, summarising, saving,
                 keptOpen>>
  /\ UNCHANGED <<fmtVars, mcpVars, pfVars, mergeVars, dateVars, favVars>>

\* onResponse with n extracted observations: the first is saved in the call,
\* each further one after an await.
OnResponse(n) ==
  /\ saving + n <= MaxExtracted + 1
  /\ n > 0 => Room
  /\ sessionMemories' = IF n > 0 THEN saveMemory(sessionMemories, currentSession)
                                 ELSE sessionMemories
  /\ saving' = IF n > 0 THEN saving + n - 1 ELSE saving
  /\ hookCall' = HookCalled("onResponse", currentSession, n, FALSE,
                            IF n > 0 THEN currentSession ELSE NoSession)
  /\ UNCHANGED <<currentSession, loading, summarising, keptOpen>>
  /\ UNCHANGED <<fmtVars, mcpVars, pfVars, mergeVars, dateVars, favVars>>

\* The next turn of onResponse's loop.
SaveNext ==
  /\ saving > 0
  /\ Room
  /\ sessionMemories' = saveMemory(sessionMemories, currentSession)
  /\ saving' = saving - 1
  /\ hookCall' = HookCalled("saveMemory", currentSession, 1, FALSE, currentSession)
  /\ UNCHANGED <<currentSession, loading, summarising, keptOpen>>
  /\ UNCHANGED <<fmtVars, mcpVars, pfVars, mergeVars, dateVars, favVars>>

\* onSessionEnd: with more than five entries it awaits the summary first;
\* then it deletes the session's list and sets currentSession to null,
\* whichever session is ending.
OnSessionEnd(session) ==
  /\ keptOpen' = IF /\ currentSession \notin {NoSession, session}
                    /\ session \in DOMAIN sessionMemories \cup loading
                 THEN currentSession ELSE NoSession
  /\ hookCall' = HookCalled("onSessionEnd", session, 0, FALSE, NoSession)
  /\ IF Len(MemoriesOf(sessionMemories, session)) > SummaryThreshold
     THEN /\ summarising' = summarising \cup {session}
          /\ UNCHANGED <<currentSession, sessionMemories>>
     ELSE /\ sessionMemories' = MapDelete(sessionMemories, session)
          /\ currentSession' = NoSession
          /\ UNCHANGED summarising
  /\ UNCHANGED <<loading, saving>>
  /\ UNCHANGED <<fmtVars, mcpVars, pfVars, mergeVars, dateVars, favVars>>

\* onSessionEnd after the await of generateSessionSummary.
SessionEnded(session) ==
  /\ session \in summarising
  /\ summarising' = summarising \ {session}
  /\ sessionMemories' = MapDelete(sessionMemories, session)
  /\ currentSession' = NoSession
  /\ UNCHANGED <<loading, saving, keptOpen, hookCall>>
  /\ UNCHANGED <<fmtVars, mcpVars, pfVars, mergeVars, dateVars, favVars>>

InitHooks ==
  /\ FormatterIdle
  /\ McpInit
  /\ PfInit
  /\ MergeInit
  /\ DateInit
  /\ FavInit
  /\ HookInit

NextHooks ==
  \/ \E session \in Sessions : OnSessionStart(session)
  \/ \E session \in Sessions : SessionLoaded(session)
  \/ OnMessage
  \/ \E n \in 0..MaxExtracted : OnResponse(n)
  \/ SaveNext
  \/ \E session \in Sessions : OnSessionEnd(session)
  \/ \E session \in Sessions : SessionEnded(session)

SpecHooks == InitHooks /\ [][NextHooks]_vars

\* C28: from the end of a session that is not the current one until the next
\* session start or end, the session that was current stays current, an
\* onMessage searches for context, and every observation saved goes to that
\* session's memories.
C28_OtherSessionStaysOpen ==
  keptOpen # NoSession =>
    /\ currentSession = keptOpen
    /\ hookCall.method = "onMessage" => hookCall.searched
    /\ (hookCall.method \in {"onResponse", "saveMemory"} /\ hookCall.observations > 0) =>
         /\ hookCall.savedTo = keptOpen
         /\ keptOpen \in DOMAIN sessionMemories

====
